---- MODULE Spec2Model ----
(***************************************************************************)
(* Work clock of sfs-res-mon.                                              *)
(*                                                                         *)
(* Spec: the backend of src/backend/work_clock.go, one action per call of  *)
(* the API.  The work_clock collection is the event log.  Every mutating   *)
(* function runs from Lock to Unlock of workClockMutex, so the calls are   *)
(* taken one after the other, in the order in which they get the mutex.    *)
(*                                                                         *)
(* SpecConc: the same functions run by concurrent request handlers, with   *)
(* Lock, the body and Unlock as separate steps, and with the toggle        *)
(* handler's read of the clock state before it calls clockInOut.           *)
(*                                                                         *)
(* SpecRequests: the clock_in, clock_out and toggle handlers of SpecConc   *)
(* alone, under a clock that has passed every record when a record is      *)
(* saved.                                                                  *)
(*                                                                         *)
(* SpecPTE: the daily reconstruction of                                    *)
(* src/components/TimeEntryUtils.tsx, a pure function of an entry list.    *)
(*                                                                         *)
(* SpecStream: one stream of getTimeEntriesStream of the client service,   *)
(* with its load, its subscription and the events it receives.             *)
(* SpecStreamFair: the same stream with a fetch that settles.              *)
(*                                                                         *)
(* SpecClient: addClockEntry of the client service against the backend.    *)
(***************************************************************************)
EXTENDS Integers, Sequences, FiniteSets, TLC

VARIABLES
    log,            \* the work_clock collection: how many records hold each (timestamp, kind)
    now,            \* time.Now() of the server
    op,             \* the latest call, with its arguments
    pre,            \* the log when the latest call took the mutex
    err,            \* the error the latest call returned ("ok": none)
    prevClockIn,    \* the call before the latest was clockInOut(true)
    workClockMutex, \* 0 when free, else the request handler holding it
    pc,             \* position of every request handler
    seen,           \* what a toggle handler read before calling clockInOut
    entries,        \* input of processTimeEntries
    nowMs,          \* new Date().getTime() of the browser
    records,        \* output of processTimeEntries
    ptePc,          \* "input" before the first reconstruction, then the kind of the latest
    timeStampEntryArray, \* getTimeEntriesStream: the array of the stream
    subscriptionEvents,  \* the events that arrived while loading
    entriesSignal,       \* the value of the entries signal
    subscription,        \* "null", or the state of the PocketBase subscription
    isSubscribed,
    isLoading,
    error,               \* the value of the error signal ("undefined": none)
    loadPc,              \* position of the initial load
    filterValid,         \* betweenFilter(from, until) succeeds
    result,              \* what subscribe() returned, when the latest step was its call
    opened,              \* number of calls of workClock().subscribe
    request,             \* addClockEntry: the entry asked for
    returned             \* addClockEntry: the entry it yielded

vars == <<log, now, op, pre, err, prevClockIn, workClockMutex, pc, seen,
          entries, nowMs, records, ptePc,
          timeStampEntryArray, subscriptionEvents, entriesSignal, subscription,
          isSubscribed, isLoading, error, loadPc, filterValid, result, opened,
          request, returned>>
pteVars == <<entries, nowMs, records, ptePc>>
handlerVars == <<workClockMutex, pc, seen>>
streamVars == <<timeStampEntryArray, subscriptionEvents, entriesSignal, subscription,
                isSubscribed, isLoading, error, loadPc, filterValid, result, opened>>
clientVars == <<request, returned>>
frontVars == <<streamVars, clientVars>>

\* no stream has been made
NoStream ==
    /\ timeStampEntryArray = <<>>
    /\ subscriptionEvents = <<>>
    /\ entriesSignal = <<>>
    /\ subscription = "null"
    /\ isSubscribed = FALSE
    /\ isLoading = FALSE
    /\ error = "undefined"
    /\ loadPc = "unused"
    /\ filterValid = TRUE
    /\ result = "none"
    /\ opened = 0

(***************************************************************************)
(* Bounds of the backend model.                                            *)
(***************************************************************************)
\* timestamps and the server clock range over 1..MaxTime
MaxTime == 3
\* the collection holds at most MaxRecords records
MaxRecords == 3
\* number of concurrent request handlers
NumProcs == 2

Times == 1..MaxTime
Procs == 1..NumProcs

(***************************************************************************)
(* The work_clock collection.  A record is its timestamp and its clock_in  *)
(* flag.  Record ids are assigned by the storage and the code never        *)
(* compares them: a request that names an id names the record that holds   *)
(* it, and two records with equal timestamp and kind are interchangeable.  *)
(* The log therefore counts the records of each (timestamp, kind); NoRec   *)
(* is what an id that no record holds designates.                          *)
(***************************************************************************)
Events == [ts : Times, clock_in : BOOLEAN]
Rec(t, k) == [ts |-> t, clock_in |-> k]
NoRec == [ts |-> 0, clock_in |-> FALSE]
NoOp == [name |-> "none"]
EmptyLog == [e \in Events |-> 0]

Existing(l) == {e \in Events : l[e] > 0}

RECURSIVE SizeUpTo(_, _)
SizeUpTo(l, t) ==
    IF t = 0 THEN 0 ELSE l[Rec(t, TRUE)] + l[Rec(t, FALSE)] + SizeUpTo(l, t - 1)

\* number of records of the collection
Size(l) == SizeUpTo(l, MaxTime)

\* app.FindRecordById: whether the id designates a record of the log
FindRecordById(l, r) == r \in Events /\ l[r] > 0

\* app.Save of a record made by core.NewRecord
Save(l, t, k) == [l EXCEPT ![Rec(t, k)] = @ + 1]

\* app.Delete
Delete(l, r) == [l EXCEPT ![r] = @ - 1]

\* the Update of a save that also writes the other kind
UpdateKindFlipped(l, r, t) == Save(Delete(l, r), t, ~r.clock_in)

\* record.Set("timestamp", t) and Save of an existing record: the kind stays
Update(l, r, t) == Save(Delete(l, r), t, r.clock_in)

\* the query of LatestRecords with the sort "+timestamp"
LatestRecordsAscending(l) ==
    {e \in Existing(l) : \A f \in Existing(l) : f.ts >= e.ts}

\* FindRecordsByFilter("work_clock", "", "-timestamp", 1, 0): the records that
\* can come first; the order of records with equal timestamps is not defined
LatestRecords(l) ==
    {e \in Existing(l) : \A f \in Existing(l) : f.ts <= e.ts}

\* the query for the succeeding record with the sort "-timestamp"
SucceedingRecordsDescending(l, t) ==
    {e \in Existing(l) : /\ e.ts > t
                         /\ \A f \in Existing(l) : f.ts > t => f.ts <= e.ts}

\* FindRecordsByFilter("work_clock", "timestamp > {:clockIn}", "+timestamp", 1, 0)
SucceedingRecords(l, t) ==
    {e \in Existing(l) : /\ e.ts > t
                         /\ \A f \in Existing(l) : f.ts > t => f.ts >= e.ts}

\* the query for the preceding record with the filter "timestamp <= {:clockIn}"
PrecedingRecordsInclusive(l, t) ==
    {e \in Existing(l) : /\ e.ts <= t
                         /\ \A f \in Existing(l) : f.ts <= t => f.ts <= e.ts}

\* FindRecordsByFilter("work_clock", "timestamp < {:clockIn}", "-timestamp", 1, 0)
PrecedingRecords(l, t) ==
    {e \in Existing(l) : /\ e.ts < t
                         /\ \A f \in Existing(l) : f.ts < t => f.ts <= e.ts}

\* a query result of length <= 1: NoRec stands for the empty result
First(S) == IF S = {} THEN {NoRec} ELSE S

\* isCurrentlyClockedIn without the empty-result case: an empty log counts as
\* clocked in
isCurrentlyClockedInEmptyTrue(l) ==
    IF Existing(l) = {} THEN {TRUE}
    ELSE {e.clock_in : e \in LatestRecords(l)}

(***************************************************************************)
(* isCurrentlyClockedIn: the kind of the latest record, false on an empty  *)
(* log.  The set of values the call can return.                            *)
(***************************************************************************)
isCurrentlyClockedIn(l) ==
    IF Existing(l) = {} THEN {FALSE}
    ELSE {e.clock_in : e \in LatestRecords(l)}

(***************************************************************************)
(* checkValidity(app, id) for record r, where the two neighbour queries    *)
(* returned s and p (NoRec: no record).                                    *)
(***************************************************************************)
checkValidity(r, s, p) ==
    IF s # NoRec /\ s.clock_in # r.clock_in THEN "succeeding"
    ELSE IF p # NoRec /\ p.clock_in = r.clock_in THEN "preceding"
    ELSE "ok"

\* the results checkValidity can return on log l for record r
checkValidityResults(l, r) ==
    {checkValidity(r, s, p) :
        s \in First(SucceedingRecords(l, r.ts)),
        p \in First(PrecedingRecords(l, r.ts))}

(***************************************************************************)
(* app.RunInTransaction(fn): the writes fn made through txApp (txl) are    *)
(* committed when fn returns nil and rolled back when it returns an error. *)
(***************************************************************************)
RunInTransaction(l, txl, e) == IF e = "ok" THEN txl ELSE l

(***************************************************************************)
(* The mutating functions, after Lock.  Each gives the set of outcomes     *)
(* the call can have on log l: the log it leaves and the error it returns. *)
(***************************************************************************)
Outcome(l, e) == [log |-> l, err |-> e]

\* clockInOut without the pre-check made under the mutex
clockInOutUnchecked(l, clockIn, t) == {Outcome(Save(l, t, clockIn), "ok")}

\* clockInOut at time t: the pre-check on the latest record, then app.Save
clockInOut(l, clockIn, t) ==
    {IF isClockedIn = clockIn
     THEN Outcome(l, "already")
     ELSE Outcome(Save(l, t, clockIn), "ok") : isClockedIn \in isCurrentlyClockedIn(l)}

\* whether deleteClockInOutPair refuses to delete when the query for the
\* succeeding record returned s
deleteRejectsSucceeding(s) == s # NoRec /\ ~s.clock_in

\* deleteClockInOutPair without the test of the kind of the record
deleteClockInOutPairAnyKind(l, r) ==
    IF ~FindRecordById(l, r) THEN {Outcome(l, "notfound")}
    ELSE {IF deleteRejectsSucceeding(s)
          THEN Outcome(l, "succeeding")
          ELSE LET d1 == Delete(l, r)
                   d2 == IF s # NoRec THEN Delete(d1, s) ELSE d1
               IN  Outcome(RunInTransaction(l, d2, "ok"), "ok") :
          s \in First(SucceedingRecords(l, r.ts))}

\* deleteClockInOutPair: FindRecordById, the kind test, the query for the
\* succeeding record and the transaction with both deletes
deleteClockInOutPair(l, r) ==
    IF ~FindRecordById(l, r) THEN {Outcome(l, "notfound")}
    ELSE IF ~r.clock_in THEN {Outcome(l, "notclockin")}
    ELSE {IF deleteRejectsSucceeding(s)
          THEN Outcome(l, "succeeding")
          ELSE LET d1 == Delete(l, r)
                   d2 == IF s # NoRec THEN Delete(d1, s) ELSE d1
               IN  Outcome(RunInTransaction(l, d2, "ok"), "ok") :
          s \in First(SucceedingRecords(l, r.ts))}

\* modifyWorkClockTimestamp saving through app instead of txApp: the new
\* timestamp stays when checkValidity fails
modifyWorkClockTimestampNoTx(l, r, newTimestamp) ==
    IF ~FindRecordById(l, r) THEN {Outcome(l, "notfound")}
    ELSE LET txl == Update(l, r, newTimestamp)
         IN  {Outcome(txl, e) :
                 e \in checkValidityResults(txl, Rec(newTimestamp, r.clock_in))}

\* modifyWorkClockTimestamp: FindRecordById, then the transaction: record.Set
\* and txApp.Save, checkValidity, commit or rollback
modifyWorkClockTimestamp(l, r, newTimestamp) ==
    IF ~FindRecordById(l, r) THEN {Outcome(l, "notfound")}
    ELSE LET txl == Update(l, r, newTimestamp)
         IN  {Outcome(RunInTransaction(l, txl, e), e) :
                 e \in checkValidityResults(txl, Rec(newTimestamp, r.clock_in))}

\* clockInOutAt saving through app instead of txApp: the record stays when
\* checkValidity fails
clockInOutAtNoTx(l, clockIn, timestamp) ==
    LET txl == Save(l, timestamp, clockIn)
    IN  {Outcome(txl, e) : e \in checkValidityResults(txl, Rec(timestamp, clockIn))}

\* clockInOutAt, the transaction: txApp.Save of the new record, checkValidity,
\* commit or rollback
clockInOutAt(l, clockIn, timestamp) ==
    LET txl == Save(l, timestamp, clockIn)
    IN  {Outcome(RunInTransaction(l, txl, e), e) :
            e \in checkValidityResults(txl, Rec(timestamp, clockIn))}

\* the error of addClockInOutPair when the two checks returned eIn and eOut
PairError(eIn, eOut) ==
    IF eIn # "ok" THEN "clockInInvalid"
    ELSE IF eOut # "ok" THEN "clockOutInvalid"
    ELSE "ok"

\* addClockInOutPair returning at the first failed check with the clock-in
\* saved through app: the clock-in stays when only the clock-out is rejected
addClockInOutPairNoTx(l, clockInTimestamp, clockOutTimestamp) ==
    LET txl == Save(Save(l, clockInTimestamp, TRUE), clockOutTimestamp, FALSE)
    IN  {Outcome(IF PairError(eIn, eOut) = "ok" THEN txl
                 ELSE IF PairError(eIn, eOut) = "clockOutInvalid"
                 THEN Save(l, clockInTimestamp, TRUE)
                 ELSE l,
                 PairError(eIn, eOut)) :
            eIn \in checkValidityResults(txl, Rec(clockInTimestamp, TRUE)),
            eOut \in checkValidityResults(txl, Rec(clockOutTimestamp, FALSE))}

\* addClockInOutPair, the transaction: txApp.Save of both records,
\* checkValidity of the clock-in, then of the clock-out, commit or rollback
addClockInOutPair(l, clockInTimestamp, clockOutTimestamp) ==
    LET txl == Save(Save(l, clockInTimestamp, TRUE), clockOutTimestamp, FALSE)
    IN  {Outcome(RunInTransaction(l, txl, PairError(eIn, eOut)), PairError(eIn, eOut)) :
            eIn \in checkValidityResults(txl, Rec(clockInTimestamp, TRUE)),
            eOut \in checkValidityResults(txl, Rec(clockOutTimestamp, FALSE))}

\* the collection has room for n more records
HasRoom(n) == Size(log) + n <= MaxRecords

(***************************************************************************)
(* Spec: one action per call.  op, pre and err describe the latest call.   *)
(***************************************************************************)
\* the latest call was o and had outcome out
Called(o, out) ==
    /\ log' = out.log
    /\ err' = out.err
    /\ op' = o
    /\ pre' = log
    /\ prevClockIn' = (op.name = "clockInOut" /\ op.clockIn)
    /\ UNCHANGED <<now, handlerVars, pteVars, frontVars>>

\* GET /api/work_clock/clock_in, clock_out and POST /api/work_clock
ApiClockInOut(clockIn) ==
    /\ HasRoom(1)
    /\ \E out \in clockInOut(log, clockIn, now) :
          Called([name |-> "clockInOut", clockIn |-> clockIn], out)

\* POST /api/work_clock/delete
ApiDelete(r) ==
    \E out \in deleteClockInOutPair(log, r) :
       Called([name |-> "deleteClockInOutPair", rec |-> r], out)

\* POST /api/work_clock/modify
ApiModify(r, t) ==
    \E out \in modifyWorkClockTimestamp(log, r, t) :
       Called([name |-> "modifyWorkClockTimestamp", rec |-> r, t |-> t], out)

\* POST /api/work_clock/clock_in_out_at
ApiClockInOutAt(clockIn, t) ==
    /\ HasRoom(1)
    /\ \E out \in clockInOutAt(log, clockIn, t) :
          Called([name |-> "clockInOutAt", clockIn |-> clockIn, t |-> t], out)

\* POST /api/work_clock/add_clock_in_out_pair
ApiAddClockInOutPair(tIn, tOut) ==
    /\ HasRoom(2)
    /\ \E out \in addClockInOutPair(log, tIn, tOut) :
          Called([name |-> "addClockInOutPair", tIn |-> tIn, tOut |-> tOut], out)

\* the server clock advances
Tick ==
    /\ now < MaxTime
    /\ now' = now + 1
    /\ UNCHANGED <<log, op, pre, err, prevClockIn, handlerVars, pteVars, frontVars>>

\* no call of addClockEntry is under way
NoClient == request = NoRec /\ returned = NoRec

Init ==
    /\ log = EmptyLog
    /\ now = 1
    /\ op = NoOp
    /\ pre = EmptyLog
    /\ err = "none"
    /\ prevClockIn = FALSE
    /\ workClockMutex = 0
    /\ pc = [p \in Procs |-> "idle"]
    /\ seen = [p \in Procs |-> FALSE]
    /\ entries = <<>>
    /\ nowMs = 0
    /\ records = <<>>
    /\ ptePc = "unused"
    /\ NoStream
    /\ NoClient

\* the records a request can name by id: those of the log, or none
Named == Existing(log) \cup {NoRec}

Next ==
    \/ \E k \in BOOLEAN : ApiClockInOut(k)
    \/ \E r \in Named : ApiDelete(r)
    \/ \E r \in Named, t \in Times : ApiModify(r, t)
    \/ \E k \in BOOLEAN, t \in Times : ApiClockInOutAt(k, t)
    \/ \E tIn \in Times, tOut \in Times : ApiAddClockInOutPair(tIn, tOut)
    \/ Tick

Spec == Init /\ [][Next]_vars

(***************************************************************************)
(* SpecConc: request handlers as processes.  A handler is idle, has done   *)
(* the toggle route's read ("toggled"), is inside a mutating function      *)
(* after its Lock ("locked"), or has run the function's body and not yet   *)
(* its deferred Unlock ("done").                                           *)
(***************************************************************************)
\* a function that does not wait for the mutex
LockSkipped(p) == workClockMutex' = p

\* workClockMutex.Lock()
Lock(p) == workClockMutex = 0 /\ workClockMutex' = p

\* defer workClockMutex.Unlock()
Unlock(p) == workClockMutex' = 0

\* handler p is between the Lock and the Unlock of a mutating function: from
\* before its first read of the log until after its commit or rollback
InCriticalSection(p) == pc[p] \in {"locked", "done"}

\* handler p enters function o
Enter(p, o) ==
    /\ Lock(p)
    /\ pc' = [pc EXCEPT ![p] = "locked"]
    /\ op' = o
    /\ UNCHANGED <<log, now, err, pre, prevClockIn, pteVars, frontVars>>

\* the body of the function of handler p had outcome out
Ran(p, out) ==
    /\ log' = out.log
    /\ err' = out.err
    /\ pc' = [pc EXCEPT ![p] = "done"]
    /\ UNCHANGED <<now, op, pre, prevClockIn, workClockMutex, seen, pteVars, frontVars>>

\* GET /api/work_clock/toggle: isCurrentlyClockedIn, called by the route
\* handler before clockInOut takes the mutex
ToggleRead(p) ==
    /\ pc[p] = "idle"
    /\ \E c \in isCurrentlyClockedIn(log) : seen' = [seen EXCEPT ![p] = c]
    /\ pc' = [pc EXCEPT ![p] = "toggled"]
    /\ UNCHANGED <<log, now, op, pre, err, prevClockIn, workClockMutex, pteVars, frontVars>>

\* the toggle handler calls clockInOut(!clockedIn)
ToggleLock(p) ==
    /\ pc[p] = "toggled"
    /\ HasRoom(1)
    /\ Enter(p, [name |-> "clockInOut", clockIn |-> ~seen[p], toggle |-> TRUE])
    /\ seen' = [seen EXCEPT ![p] = FALSE]

\* the clock_in, clock_out and POST handlers call clockInOut(clockIn)
ClockInOutLock(p, clockIn) ==
    /\ pc[p] = "idle"
    /\ HasRoom(1)
    /\ Enter(p, [name |-> "clockInOut", clockIn |-> clockIn, toggle |-> FALSE])
    /\ UNCHANGED seen

\* the records function name can add to the collection
RoomNeeded(name) ==
    IF name = "addClockInOutPair" THEN 2 ELSE IF name = "clockInOutAt" THEN 1 ELSE 0

\* a handler calls one of the other four mutating functions
FunctionLock(p, name) ==
    /\ pc[p] = "idle"
    /\ HasRoom(RoomNeeded(name))
    /\ Enter(p, [name |-> name])
    /\ UNCHANGED seen

ClockInOutRun(p) ==
    /\ pc[p] = "locked" /\ op.name = "clockInOut"
    /\ \E out \in clockInOut(log, op.clockIn, now) : Ran(p, out)

DeleteRun(p, r) ==
    /\ pc[p] = "locked" /\ op.name = "deleteClockInOutPair"
    /\ \E out \in deleteClockInOutPair(log, r) : Ran(p, out)

ModifyRun(p, r, t) ==
    /\ pc[p] = "locked" /\ op.name = "modifyWorkClockTimestamp"
    /\ \E out \in modifyWorkClockTimestamp(log, r, t) : Ran(p, out)

ClockInOutAtRun(p, clockIn, t) ==
    /\ pc[p] = "locked" /\ op.name = "clockInOutAt"
    /\ \E out \in clockInOutAt(log, clockIn, t) : Ran(p, out)

AddClockInOutPairRun(p, tIn, tOut) ==
    /\ pc[p] = "locked" /\ op.name = "addClockInOutPair"
    /\ \E out \in addClockInOutPair(log, tIn, tOut) : Ran(p, out)

\* the deferred Unlock and the return to the route handler
Return(p) ==
    /\ pc[p] = "done"
    /\ Unlock(p)
    /\ pc' = [pc EXCEPT ![p] = "idle"]
    /\ op' = NoOp
    /\ err' = "none"
    /\ UNCHANGED <<log, now, pre, prevClockIn, seen, pteVars, frontVars>>

OtherFunctions ==
    {"deleteClockInOutPair", "modifyWorkClockTimestamp", "clockInOutAt", "addClockInOutPair"}

NextConc ==
    \/ \E p \in Procs : ToggleRead(p)
    \/ \E p \in Procs : ToggleLock(p)
    \/ \E p \in Procs, k \in BOOLEAN : ClockInOutLock(p, k)
    \/ \E p \in Procs, f \in OtherFunctions : FunctionLock(p, f)
    \/ \E p \in Procs : ClockInOutRun(p)
    \/ \E p \in Procs, r \in Named : DeleteRun(p, r)
    \/ \E p \in Procs, r \in Named, t \in Times : ModifyRun(p, r, t)
    \/ \E p \in Procs, k \in BOOLEAN, t \in Times : ClockInOutAtRun(p, k, t)
    \/ \E p \in Procs, tIn \in Times, tOut \in Times : AddClockInOutPairRun(p, tIn, tOut)
    \/ \E p \in Procs : Return(p)
    \/ Tick

SpecConc == Init /\ [][NextConc]_vars

(***************************************************************************)
(* SpecRequests: concurrent clock_in, clock_out and toggle requests only,  *)
(* under a strictly increasing clock: time.Now() in clockInOut gives a     *)
(* time after the time of every record of the log.                         *)
(***************************************************************************)
\* every record of log l is dated before time t
DatedBefore(l, t) == \A e \in Existing(l) : e.ts < t

\* the body of clockInOut, run once the clock is past every record
ClockInOutRunLater(p) == DatedBefore(log, now) /\ ClockInOutRun(p)

NextRequests ==
    \/ \E p \in Procs : ToggleRead(p)
    \/ \E p \in Procs : ToggleLock(p)
    \/ \E p \in Procs, k \in BOOLEAN : ClockInOutLock(p, k)
    \/ \E p \in Procs : ClockInOutRunLater(p)
    \/ \E p \in Procs : Return(p)
    \/ Tick

SpecRequests == Init /\ [][NextRequests]_vars

(***************************************************************************)
(* Properties of the backend.                                              *)
(***************************************************************************)
\* record e is the only record of log l at its timestamp
Alone(l, e) == l[e] = 1 /\ l[Rec(e.ts, ~e.clock_in)] = 0

\* records e and f follow each other in log l sorted by timestamp, whatever
\* the order given to records of equal timestamp
Adjacent(l, e, f) ==
    /\ e.ts < f.ts
    /\ Alone(l, e) /\ Alone(l, f)
    /\ \A g \in Existing(l) : g.ts <= e.ts \/ g.ts >= f.ts

\* C1: the log sorted by timestamp never holds two adjacent events of the same
\* kind (stated for the pairs whose adjacency does not depend on how equal
\* timestamps are ordered)
C1_Alternation ==
    \A e \in Existing(log), f \in Existing(log) :
        Adjacent(log, e, f) => e.clock_in # f.clock_in

\* the record the latest call of clockInOutAt checked, and the log it was
\* checked in
CheckedRec == Rec(op.t, op.clockIn)
CheckedLog == Save(pre, op.t, op.clockIn)

\* every nearest neighbour of r on one side exists and has the kind of r
AllSameKind(S, r) == S # {} /\ \A x \in S : x.clock_in = r.clock_in
\* some nearest neighbour of r on one side has the kind of r
SomeSameKind(S, r) == \E x \in S : x.clock_in = r.clock_in

\* C2: checkValidity returns an error exactly when the nearest succeeding event
\* exists and has the kind of the checked event, or the nearest preceding event
\* exists and has the kind of the checked event (seen on the check that
\* clockInOutAt runs on the record it saved)
C2_CheckValidityExact ==
    op.name = "clockInOutAt" =>
        LET S == SucceedingRecords(CheckedLog, op.t)
            P == PrecedingRecords(CheckedLog, op.t)
        IN  /\ (AllSameKind(S, CheckedRec) \/ AllSameKind(P, CheckedRec)) => err # "ok"
            /\ err # "ok" => (SomeSameKind(S, CheckedRec) \/ SomeSameKind(P, CheckedRec))

\* the latest call was deleteClockInOutPair on an existing clock-in
DeletedClockIn ==
    /\ op.name = "deleteClockInOutPair"
    /\ FindRecordById(pre, op.rec)
    /\ op.rec.clock_in

\* C3: deleteClockInOutPair on a clock-in whose immediately following event is
\* a clock-out succeeds and removes exactly those two events
C3_DeleteRemovesPair ==
    (/\ DeletedClockIn
     /\ SucceedingRecords(pre, op.rec.ts) # {}
     /\ \A s \in SucceedingRecords(pre, op.rec.ts) : ~s.clock_in)
    => /\ err = "ok"
       /\ \E s \in SucceedingRecords(pre, op.rec.ts) :
             log = Delete(Delete(pre, op.rec), s)

\* C4: deleteClockInOutPair on a clock-in whose immediately following event is
\* itself a clock-in is rejected and removes nothing
C4_DeleteRejectedBeforeClockIn ==
    (/\ DeletedClockIn
     /\ SucceedingRecords(pre, op.rec.ts) # {}
     /\ \A s \in SucceedingRecords(pre, op.rec.ts) : s.clock_in)
    => /\ err # "ok"
       /\ log = pre

\* C5: clockInOut(true) called right after clockInOut(true) fails with
\* "already clocked in" and leaves the log as the first call left it (stated
\* for logs whose latest timestamp is held by records of one kind, where the
\* kind of the latest record is not in doubt)
C5_SecondClockInRejected ==
    (/\ op.name = "clockInOut" /\ op.clockIn /\ prevClockIn
     /\ Cardinality(isCurrentlyClockedIn(pre)) = 1)
    => (err = "already" /\ log = pre)

\* C6: addClockInOutPair adds both events or, when it returns an error, none
C6_PairAllOrNothing ==
    op.name = "addClockInOutPair" =>
        \/ err = "ok" /\ log = Save(Save(pre, op.tIn, TRUE), op.tOut, FALSE)
        \/ err # "ok" /\ log = pre

\* addClockInOutPair returned an error because checkValidity accepted the
\* clock-in and rejected the clock-out
C6_Witness ==
    op.name = "addClockInOutPair" /\ err = "clockOutInvalid" /\ log = pre

\* C7: when clockInOutAt fails on checkValidity the log is the one before the call
C7_ClockInOutAtRollback ==
    (op.name = "clockInOutAt" /\ err \in {"succeeding", "preceding"}) => log = pre

\* clockInOutAt was rejected by checkValidity on a log that holds records
C7_Witness ==
    /\ op.name = "clockInOutAt" /\ err \in {"succeeding", "preceding"}
    /\ Existing(log) # {} /\ log = pre

\* C8: when modifyWorkClockTimestamp fails on checkValidity the record keeps its
\* old timestamp and no other record changed
C8_ModifyRollback ==
    (op.name = "modifyWorkClockTimestamp" /\ err \in {"succeeding", "preceding"})
    => (log = pre /\ FindRecordById(log, op.rec))

\* modifyWorkClockTimestamp was rejected by checkValidity for a new timestamp
\* that differs from the old one
C8_Witness ==
    /\ op.name = "modifyWorkClockTimestamp" /\ err \in {"succeeding", "preceding"}
    /\ op.t # op.rec.ts /\ log = pre

\* C9: at most one handler is between the Lock and the Unlock of a mutating
\* function, and it is the one that holds workClockMutex
C9_OneWriter ==
    \A p \in Procs, q \in Procs :
        InCriticalSection(p) =>
            /\ workClockMutex = p
            /\ (q # p => ~InCriticalSection(q))

\* a handler has written under the mutex while a toggle handler that has read
\* the clock state is waiting to enter clockInOut
C9_Witness ==
    \E p \in Procs, q \in Procs :
        /\ p # q
        /\ pc[p] = "done" /\ err = "ok" /\ log # EmptyLog
        /\ pc[q] = "toggled"

(***************************************************************************)
(* SpecPTE: processTimeEntries of TimeEntryUtils.tsx.                      *)
(*                                                                         *)
(* A timestamp is a number of milliseconds (Date.getTime()).  The local    *)
(* calendar of the model has months of DaysPerMonth days and years of      *)
(* MonthsPerYear months, and no time zone offset.                          *)
(***************************************************************************)
\* length of the entry lists given to processTimeEntries
MaxEntries == 3
\* days of a month and months of a year of the model's calendar
DaysPerMonth == 2
MonthsPerYear == 2

MinuteMs == 60 * 1000
HourMs == 60 * MinuteMs
DayMs == 24 * HourMs

\* the instant of local time h:m on day d of month m0 of year y (all from 0)
At(y, m0, d, h, m) ==
    ((y * MonthsPerYear + m0) * DaysPerMonth + d) * DayMs + h * HourMs + m * MinuteMs

\* the timestamps of the entries: two instants of one day, the next day, the
\* next month and the next year
TimePoints ==
    {At(0, 0, 0, 9, 0), At(0, 0, 0, 23, 30), At(0, 0, 1, 0, 30), At(0, 1, 0, 9, 0),
     At(1, 0, 0, 9, 0)}

\* the values of new Date(): before, between and after the entries
NowPoints ==
    {At(0, 0, 0, 8, 0), At(0, 0, 0, 23, 45), At(0, 0, 1, 12, 0), At(1, 0, 1, 9, 0)}

\* TimeStampEntry without its id
Entry(t, k) == [timestamp |-> t, clock_in |-> k]
Entries == {Entry(t, k) : t \in TimePoints, k \in BOOLEAN}

RECURSIVE SeqsUpTo(_, _)
SeqsUpTo(S, n) ==
    IF n = 0 THEN {<<>>}
    ELSE LET shorter == SeqsUpTo(S, n - 1)
         IN  shorter \cup {Append(q, x) : q \in {r \in shorter : Len(r) = n - 1}, x \in S}

\* the value null of clockIn and clockOut
Null == -1

\* Date.getFullYear(), getMonth() (from 0) and getDate() (from 1) of local time
getFullYear(t) == (t \div DayMs) \div (DaysPerMonth * MonthsPerYear)
getMonth(t) == ((t \div DayMs) \div DaysPerMonth) % MonthsPerYear
getDate(t) == ((t \div DayMs) % DaysPerMonth) + 1

isSameLocalDay(a, b) ==
    /\ getDate(a) = getDate(b)
    /\ getMonth(a) = getMonth(b)
    /\ getFullYear(a) = getFullYear(b)

\* the key `${getFullYear()}-${getMonth() + 1}-${getDate()}` with the month and
\* the day padded to two digits: its fields, in the order of the string
localDate(t) == <<getFullYear(t), getMonth(t) + 1, getDate(t)>>

\* a.localeCompare(b) of two such keys whose years have equally many digits:
\* negative, zero or positive
localeCompare(a, b) ==
    IF a[1] # b[1] THEN a[1] - b[1]
    ELSE IF a[2] # b[2] THEN a[2] - b[2]
    ELSE a[3] - b[3]

Range(q) == {q[i] : i \in 1..Len(q)}

\* the keys of a grouping that opens a new group for every entry
DateKeysRepeated(es) == [i \in 1..Len(es) |-> localDate(es[i].timestamp)]

\* Object.keys(entriesByDate): the dates in the order of their first entry
RECURSIVE DateKeys(_)
DateKeys(es) ==
    IF es = <<>> THEN <<>>
    ELSE LET ks == DateKeys(SubSeq(es, 1, Len(es) - 1))
             k == localDate(es[Len(es)].timestamp)
         IN  IF k \in Range(ks) THEN ks ELSE Append(ks, k)

\* entriesByDate[date]: the entries of that date, in the order of the input
EntriesOfDate(es, date) == SelectSeq(es, LAMBDA e : localDate(e.timestamp) = date)

\* x put into the sorted list behind its first n elements
InsertAt(sorted, n, x) ==
    SubSeq(sorted, 1, n) \o <<x>> \o SubSeq(sorted, n + 1, Len(sorted))

\* the SortByTimestamp of a call that does not sort
SortByTimestampSkipped(es) == es

\* dayEntries.sort((a, b) => a.timestamp.getTime() - b.timestamp.getTime()),
\* a stable sort: an entry goes behind the entries that are not later than it
RECURSIVE SortByTimestamp(_)
SortByTimestamp(es) ==
    IF es = <<>> THEN <<>>
    ELSE LET sorted == SortByTimestamp(SubSeq(es, 1, Len(es) - 1))
             x == es[Len(es)]
             n == Cardinality({i \in 1..Len(sorted) : sorted[i].timestamp <= x.timestamp})
         IN  InsertAt(sorted, n, x)

\* the pair of a push that leaves missingEntry false
PairNeverMissing(ci, co, d, db, me) ==
    [clockIn |-> ci, clockOut |-> co, duration |-> d, dayBoundary |-> db,
     missingEntry |-> FALSE]

Pair(ci, co, d, db, me) ==
    [clockIn |-> ci, clockOut |-> co, duration |-> d, dayBoundary |-> db,
     missingEntry |-> me]

\* the loop over dayEntries from index i (from 1) with the loop's variables in
\* acc; formattedTotal, a rendering of totalTime, is left out of the records
RECURSIVE PairEntries(_, _, _, _)
PairEntries(dayEntries, i, acc, t) ==
    IF i > Len(dayEntries) THEN acc
    ELSE IF dayEntries[i].clock_in
    THEN LET clockIn == dayEntries[i].timestamp
         IN  IF i + 1 <= Len(dayEntries) /\ ~dayEntries[i + 1].clock_in
             THEN LET clockOut == dayEntries[i + 1].timestamp
                      duration == clockOut - clockIn
                  IN  PairEntries(dayEntries, i + 2,
                         [acc EXCEPT
                            !.entryPairs = Append(@, Pair(clockIn, clockOut, duration,
                                                     ~isSameLocalDay(clockIn, clockOut), FALSE)),
                            !.totalTime = @ + duration],
                         t)
             ELSE LET duration == t - clockIn
                      missingEntry == i # Len(dayEntries)
                      isActive == i = Len(dayEntries)
                  IN  PairEntries(dayEntries, i + 1,
                         [acc EXCEPT
                            !.entryPairs = Append(@, Pair(clockIn, Null, duration, FALSE,
                                                     missingEntry)),
                            !.totalTime = IF ~missingEntry \/ isActive THEN @ + duration ELSE @,
                            !.hasMissingEntries = @ \/ missingEntry,
                            !.isActive = isActive],
                         t)
    ELSE PairEntries(dayEntries, i + 1,
            [acc EXCEPT
               !.entryPairs = Append(@, Pair(Null, dayEntries[i].timestamp, 0, FALSE, TRUE)),
               !.hasMissingEntries = TRUE],
            t)

\* the DailyRecord of one date
DailyRecordOf(es, date, t) ==
    PairEntries(SortByTimestamp(EntriesOfDate(es, date)), 1,
                [date |-> date, entryPairs |-> <<>>, totalTime |-> 0,
                 hasMissingEntries |-> FALSE, isActive |-> FALSE],
                t)

\* the pairs of a cleanupMiddleRecord that leaves the pairs as they are
CleanPairsSkipped(pairs) == pairs

\* the pairs of cleanupMiddleRecord: a pair without clock-in or clock-out
\* becomes a missing entry of duration 0
CleanPairs(pairs) ==
    [i \in 1..Len(pairs) |->
        IF pairs[i].clockIn = Null \/ pairs[i].clockOut = Null
        THEN [pairs[i] EXCEPT !.missingEntry = TRUE, !.duration = 0, !.dayBoundary = FALSE]
        ELSE pairs[i]]

\* the total of a cleanupMiddleRecord that adds the duration of every pair
RECURSIVE SumDurationsOfAll(_)
SumDurationsOfAll(pairs) ==
    IF pairs = <<>> THEN 0
    ELSE SumDurationsOfAll(SubSeq(pairs, 1, Len(pairs) - 1)) + pairs[Len(pairs)].duration

RECURSIVE SumDurations(_)
SumDurations(pairs) ==
    IF pairs = <<>> THEN 0
    ELSE LET p == pairs[Len(pairs)]
         IN  SumDurations(SubSeq(pairs, 1, Len(pairs) - 1))
             + (IF p.clockIn = Null \/ p.clockOut = Null THEN 0 ELSE p.duration)

\* cleanupMiddleRecord that returns at once
cleanupMiddleRecordSkipped(record) == record

cleanupMiddleRecord(record) ==
    IF ~record.isActive THEN record
    ELSE [record EXCEPT
            !.hasMissingEntries = TRUE,
            !.isActive = FALSE,
            !.entryPairs = CleanPairs(@),
            !.totalTime = SumDurations(record.entryPairs)]

\* the records of a call that does not sort them by date
SortByDateDescendingSkipped(rs) == rs

\* records.sort((a, b) => b.date.localeCompare(a.date)), a stable sort: a
\* record goes behind the records whose date is not before its date
RECURSIVE SortByDateDescending(_)
SortByDateDescending(rs) ==
    IF rs = <<>> THEN <<>>
    ELSE LET sorted == SortByDateDescending(SubSeq(rs, 1, Len(rs) - 1))
             x == rs[Len(rs)]
             n == Cardinality({i \in 1..Len(sorted) :
                                  localeCompare(x.date, sorted[i].date) <= 0})
         IN  InsertAt(sorted, n, x)

cleanupDailyRecords(rs, t) ==
    LET sorted == SortByDateDescending(rs)
        cleaned == [i \in 1..Len(sorted) |->
                       IF i = 1 THEN sorted[i] ELSE cleanupMiddleRecord(sorted[i])]
    IN  IF /\ Len(cleaned) > 0
           /\ cleaned[1].isActive
           /\ Len(cleaned[1].entryPairs) > 0
           /\ cleaned[1].entryPairs[Len(cleaned[1].entryPairs)].clockIn # Null
        THEN LET lastIndex == Len(cleaned[1].entryPairs)
                 last == cleaned[1].entryPairs[lastIndex]
             IN  [cleaned EXCEPT ![1].entryPairs[lastIndex].dayBoundary =
                     isSameLocalDay(last.clockIn,
                                    IF last.clockOut # Null THEN last.clockOut ELSE t)]
        ELSE cleaned

\* processTimeEntries(entries) called when new Date() is t
processTimeEntries(es, t) ==
    LET keys == DateKeys(es)
    IN  cleanupDailyRecords([i \in 1..Len(keys) |-> DailyRecordOf(es, keys[i], t)], t)

\* the list after a call that takes the entries off the list with shift()
entriesAfterShift(es) == IF es = <<>> THEN es ELSE Tail(es)

\* the list after a call that sorts the list itself
entriesAfterSorted(es) == SortByTimestamp(es)

\* the list given to processTimeEntries as the call leaves it: forEach reads
\* it, the entries are pushed on the new arrays of entriesByDate, and it is
\* these arrays that are sorted
entriesAfter(es) == es

\* a call of processTimeEntries has returned
Processed == ptePc \in {"output", "repeated", "refreshed"}

\* onMount: the entries are fetched and processed
Load ==
    /\ ptePc = "input"
    /\ records' = processTimeEntries(entries, nowMs)
    /\ entries' = entriesAfter(entries)
    /\ ptePc' = "output"
    /\ UNCHANGED <<nowMs, log, now, op, pre, err, prevClockIn, handlerVars, frontVars>>

\* the interval that runs while clocked in, and the call after a toggle: the
\* entries are processed again, within the same millisecond ("repeated") or
\* after time has passed ("refreshed")
Refresh ==
    /\ Processed
    /\ \E t \in NowPoints :
          /\ t >= nowMs
          /\ nowMs' = t
          /\ records' = processTimeEntries(entries, t)
          /\ ptePc' = IF t = nowMs THEN "repeated" ELSE "refreshed"
    /\ entries' = entriesAfter(entries)
    /\ UNCHANGED <<log, now, op, pre, err, prevClockIn, handlerVars, frontVars>>

InitPTE ==
    /\ entries \in SeqsUpTo(Entries, MaxEntries)
    /\ nowMs \in NowPoints
    /\ records = <<>>
    /\ ptePc = "input"
    /\ log = EmptyLog
    /\ now = 1
    /\ op = NoOp
    /\ pre = EmptyLog
    /\ err = "none"
    /\ prevClockIn = FALSE
    /\ workClockMutex = 0
    /\ pc = [p \in Procs |-> "idle"]
    /\ seen = [p \in Procs |-> FALSE]
    /\ NoStream
    /\ NoClient

NextPTE == Load \/ Refresh

SpecPTE == InitPTE /\ [][NextPTE]_vars

\* the date of record a is not before the date of record b
NotBefore(a, b) ==
    \/ a.date[1] > b.date[1]
    \/ a.date[1] = b.date[1] /\ a.date[2] > b.date[2]
    \/ a.date[1] = b.date[1] /\ a.date[2] = b.date[2] /\ a.date[3] >= b.date[3]

\* C10: the output of processTimeEntries has at most one record with isActive,
\* and that record is the first of the output and has the most recent date
C10_OneActiveFirst ==
    Processed =>
        \A i \in 1..Len(records) :
            records[i].isActive =>
                /\ i = 1
                /\ \A j \in 1..Len(records) : NotBefore(records[1], records[j])

\* the output has an active first record and an older record whose last pair
\* is an unterminated clock-in, which the loop had made active too
C10_Witness ==
    /\ Processed
    /\ Len(records) >= 2
    /\ records[1].isActive
    /\ \E i \in 2..Len(records) :
          LET pairs == records[i].entryPairs
          IN  pairs[Len(pairs)].clockIn # Null /\ pairs[Len(pairs)].clockOut = Null

\* the list holds a clock-in at t0 and a clock-out at a later t1, in either
\* order, and nothing else
InThenOut(es, t0, t1) ==
    /\ Len(es) = 2
    /\ Range(es) = {Entry(t0, TRUE), Entry(t1, FALSE)}
    /\ t0 < t1

\* C11: a clock-in followed by a clock-out on a later local day is one pair
\* with dayBoundary = true and duration t1 - t0 (3,600,000 ms from 23:30 to
\* 00:30), in the only record, which has the date of the clock-in and no
\* missing entry
C11_PairedAcrossMidnight ==
    Processed =>
        \A t0, t1 \in TimePoints :
            InThenOut(entries, t0, t1) /\ localDate(t0) # localDate(t1) =>
                /\ Len(records) = 1
                /\ records[1].date = localDate(t0)
                /\ records[1].entryPairs = <<Pair(t0, t1, t1 - t0, TRUE, FALSE)>>
                /\ ~records[1].hasMissingEntries

\* C12: a clock-in at T0 followed by a clock-out at T1 of the same local day
\* gives one record of that day with the one pair (T0, T1) of duration T1 - T0,
\* no day boundary, no missing entry, not active, and total T1 - T0
C12_SameDayPair ==
    Processed =>
        \A t0, t1 \in TimePoints :
            InThenOut(entries, t0, t1) /\ localDate(t0) = localDate(t1) =>
                records = <<[date |-> localDate(t0),
                             entryPairs |-> <<Pair(t0, t1, t1 - t0, FALSE, FALSE)>>,
                             totalTime |-> t1 - t0,
                             hasMissingEntries |-> FALSE,
                             isActive |-> FALSE]>>

\* the same-day pair was given with the clock-out first and has been processed
C12_Witness ==
    /\ Processed
    /\ \E t0, t1 \in TimePoints :
          /\ InThenOut(entries, t0, t1)
          /\ localDate(t0) = localDate(t1)
          /\ ~entries[1].clock_in
          /\ Len(records) = 1

\* entry i of the list is a clock-out that no clock-in precedes directly: no
\* clock-in has its timestamp, and the entries of the latest earlier
\* timestamp, if there are any, are clock-outs
Unconsumed(es, i) ==
    /\ ~es[i].clock_in
    /\ \A j \in 1..Len(es) :
          /\ es[j].timestamp = es[i].timestamp => ~es[j].clock_in
          /\ ( /\ es[j].timestamp < es[i].timestamp
               /\ \A k \in 1..Len(es) :
                     es[k].timestamp < es[i].timestamp => es[k].timestamp <= es[j].timestamp )
             => ~es[j].clock_in

\* the durations of the pairs that are not missing an entry
RECURSIVE CountedTime(_)
CountedTime(pairs) ==
    IF pairs = <<>> THEN 0
    ELSE CountedTime(Tail(pairs)) + (IF Head(pairs).missingEntry THEN 0 ELSE Head(pairs).duration)

OnlyClockIns(es) == es # <<>> /\ \A i \in 1..Len(es) : es[i].clock_in

\* the greatest timestamp of a list that is not empty
LastTimestamp(es) ==
    CHOOSE t \in {es[i].timestamp : i \in 1..Len(es)} :
        \A i \in 1..Len(es) : es[i].timestamp <= t

RECURSIVE PairCount(_)
PairCount(rs) == IF rs = <<>> THEN 0 ELSE Len(Head(rs).entryPairs) + PairCount(Tail(rs))

\* C14: of a list of clock-ins, the last in time is the active session (the
\* last pair of the first record, missingEntry = false, the record active
\* and its total that pair's duration); every other clock-in is a pair with
\* missingEntry = true that is in no total, and no other record is active
C14_OnlyClockIns ==
    Processed /\ OnlyClockIns(entries) =>
        LET n == Len(records[1].entryPairs)
            active == records[1].entryPairs[n]
        IN  /\ PairCount(records) = Len(entries)
            /\ records[1].isActive
            /\ active.clockIn = LastTimestamp(entries)
            /\ active.clockOut = Null
            /\ ~active.missingEntry
            /\ records[1].totalTime = active.duration
            /\ \A r \in 1..Len(records) :
                  /\ r > 1 => ~records[r].isActive /\ records[r].totalTime = 0
                  /\ \A q \in 1..Len(records[r].entryPairs) :
                        <<r, q>> # <<1, n>> =>
                            /\ records[r].entryPairs[q].missingEntry
                            /\ records[r].entryPairs[q].clockIn # Null
                            /\ records[r].entryPairs[q].clockOut = Null

\* three clock-ins, two of them on one day, have been processed
C14_Witness ==
    /\ Processed
    /\ OnlyClockIns(entries)
    /\ Len(entries) = 3
    /\ Len(records) = 2
    /\ Len(records[2].entryPairs) = 2
    /\ records[2].hasMissingEntries

\* the list is not in the order of its timestamps
Unsorted(es) == \E i, j \in 1..Len(es) : i < j /\ es[i].timestamp > es[j].timestamp

C18_NonNegativeDurations ==
    Processed =>
        \A r \in 1..Len(records) :
            /\ records[r].totalTime >= 0
            /\ \A q \in 1..Len(records[r].entryPairs) :
                  records[r].entryPairs[q].duration >= 0

\* e is the one record of the log with the greatest timestamp
SingleLatest(l, e) ==
    /\ e \in Events
    /\ l[e] = 1
    /\ \A f \in Existing(l) : f # e => f.ts < e.ts

\* C17: isCurrentlyClockedIn returns false on an empty log and otherwise the
\* kind of the one record with the greatest timestamp, in whatever order the
\* records were written
C17_LatestKind ==
    /\ Existing(log) = {} => isCurrentlyClockedIn(log) = {FALSE}
    /\ \A e \in Events : SingleLatest(log, e) => isCurrentlyClockedIn(log) = {e.clock_in}

\* the latest call wrote a record with a timestamp before that of the one
\* latest record, which was in the log already and has the other kind
C17_Witness ==
    /\ op.name = "clockInOutAt"
    /\ err = "ok"
    /\ \E e \in Events :
          /\ SingleLatest(log, e)
          /\ pre[e] = 1
          /\ op.t < e.ts
          /\ op.clockIn # e.clock_in

\* C19: deleteClockInOutPair called with the id of a clock-out record returns
\* an error and leaves the log as it was
C19_DeleteClockOutRejected ==
    ( /\ op.name = "deleteClockInOutPair"
      /\ FindRecordById(pre, op.rec)
      /\ ~op.rec.clock_in )
    => err # "ok" /\ log = pre

\* the latest call named a clock-out record that follows a clock-in, and was
\* refused for the kind of the record
C19_Witness ==
    /\ op.name = "deleteClockInOutPair"
    /\ FindRecordById(pre, op.rec)
    /\ ~op.rec.clock_in
    /\ \E e \in Existing(pre) : e.clock_in /\ e.ts < op.rec.ts
    /\ err = "notclockin"

\* 1 if e is f and 0 if not
One(e, f) == IF e = f THEN 1 ELSE 0

\* C20: no call changes the kind of a record: a successful
\* modifyWorkClockTimestamp(id, t) moves the one record with that id to t with
\* its kind and leaves every other record, the other successful calls only
\* add records, and deleteClockInOutPair only removes records
C20_KindImmutable ==
    /\ (op.name = "modifyWorkClockTimestamp" /\ err = "ok") =>
          \A e \in Events :
              log[e] = pre[e] - One(e, op.rec) + One(e, [ts |-> op.t, clock_in |-> op.rec.clock_in])
    /\ op.name \in {"clockInOut", "clockInOutAt", "addClockInOutPair"} =>
          \A e \in Events : log[e] >= pre[e]
    /\ op.name = "deleteClockInOutPair" =>
          \A e \in Events : log[e] <= pre[e]

\* the latest call moved a record of a log of several records to another
\* timestamp
C20_Witness ==
    /\ op.name = "modifyWorkClockTimestamp"
    /\ err = "ok"
    /\ op.t # op.rec.ts
    /\ Size(pre) >= 2
    /\ log # pre

\* the last pair of record r of the output
LastPair(r) == records[r].entryPairs[Len(records[r].entryPairs)]

\* C23: when the first record is active and its last pair has a clock-in,
\* the pair's dayBoundary is true exactly when new Date() is on another local
\* day than the clock-in
C23_ActiveDayBoundary ==
    ( /\ Processed
      /\ Len(records) > 0
      /\ records[1].isActive
      /\ LastPair(1).clockIn # Null
      /\ LastPair(1).clockOut = Null )
    => ( LastPair(1).dayBoundary <=> localDate(LastPair(1).clockIn) # localDate(nowMs) )

\* what pair q of record r adds to the total of the record: the duration of a
\* pair with clock-in and clock-out, the time since the clock-in of the last
\* pair of an active record, nothing else
Contribution(r, q) ==
    LET pair == records[r].entryPairs[q]
    IN  IF pair.clockIn # Null /\ pair.clockOut # Null THEN pair.clockOut - pair.clockIn
        ELSE IF /\ records[r].isActive
                /\ q = Len(records[r].entryPairs)
                /\ pair.clockIn # Null
             THEN nowMs - pair.clockIn
        ELSE 0

RECURSIVE SumContributions(_, _)
SumContributions(r, q) == IF q = 0 THEN 0 ELSE SumContributions(r, q - 1) + Contribution(r, q)

\* C24: the total of every record is the sum of the durations of its pairs
\* with clock-in and clock-out plus, in the active record, the running
\* duration of the active pair
C24_TotalTime ==
    Processed =>
        \A r \in 1..Len(records) :
            records[r].totalTime = SumContributions(r, Len(records[r].entryPairs))

\* the output has an active record whose total is made of a completed pair
\* and of the time since the clock-in of the active pair
C24_Witness ==
    /\ Processed
    /\ Len(records) > 0
    /\ records[1].isActive
    /\ Len(records[1].entryPairs) = 2
    /\ records[1].entryPairs[1].clockOut # Null
    /\ records[1].entryPairs[1].duration > 0
    /\ nowMs > LastPair(1).clockIn
    /\ records[1].totalTime > records[1].entryPairs[1].duration

\* C25: every pair of the output with missingEntry = true has duration 0
C25_MissingHasNoDuration ==
    Processed =>
        \A r \in 1..Len(records) :
            \A q \in 1..Len(records[r].entryPairs) :
                records[r].entryPairs[q].missingEntry => records[r].entryPairs[q].duration = 0

\* the entries with the greatest timestamp of the list are all clock-ins, or
\* all clock-outs
LastIsClockIn(es) ==
    es # <<>> /\ \A i \in 1..Len(es) : es[i].timestamp = LastTimestamp(es) => es[i].clock_in
LastIsClockOut(es) ==
    es # <<>> /\ \A i \in 1..Len(es) : es[i].timestamp = LastTimestamp(es) => ~es[i].clock_in

\* C26: the output has an active record exactly when the last event in time
\* of the whole list is a clock-in; the active pair is then the last pair of
\* the first record, has no clock-out, missingEntry = false and the timestamp
\* of that event as clock-in
C26_ActiveIffLastIsClockIn ==
    Processed =>
        /\ LastIsClockIn(entries) =>
              /\ records[1].isActive
              /\ LastPair(1).clockIn = LastTimestamp(entries)
              /\ LastPair(1).clockOut = Null
              /\ ~LastPair(1).missingEntry
        /\ (entries = <<>> \/ LastIsClockOut(entries)) =>
              \A r \in 1..Len(records) : ~records[r].isActive

\* an unsorted list of three days whose last event in time is a clock-in and
\* is not the last entry of the list has been processed
C26_Witness ==
    /\ Processed
    /\ LastIsClockIn(entries)
    /\ Len(records) = 3
    /\ entries[Len(entries)].timestamp < LastTimestamp(entries)
    /\ records[1].isActive

\* C27: a toggle request always succeeds, whatever other requests run
\* between its read of the clock state and its call of clockInOut
C27_ToggleSucceeds ==
    \A p \in Procs :
        (pc[p] = "done" /\ op.name = "clockInOut" /\ op.toggle) => err = "ok"

\* C28: after a successful clockInOut the record it created is the latest of
\* the log: no record has a greater timestamp
C28_ClockInOutAppendsLast ==
    (op.name = "clockInOut" /\ err = "ok") =>
        \A e \in Events :
            log[e] > pre[e] => \A f \in Existing(log) : f.ts <= e.ts

\* log l without its records of timestamp t
WithoutTime(l, t) == [e \in Events |-> IF e.ts = t THEN 0 ELSE l[e]]

\* the errors a call can return
Errors(outcomes) == {out.err : out \in outcomes}

\* C29: clockInOutAt(kind, t) is accepted or rejected as it would be on the
\* log without its records of timestamp t: checkValidity looks only at
\* records of strictly smaller and strictly greater timestamp
C29_EqualTimestampsIgnored ==
    op.name = "clockInOutAt" =>
        /\ Errors(clockInOutAt(pre, op.clockIn, op.t))
               = Errors(clockInOutAt(WithoutTime(pre, op.t), op.clockIn, op.t))
        /\ err \in Errors(clockInOutAt(WithoutTime(pre, op.t), op.clockIn, op.t))

\* the latest call wrote a record of the kind and timestamp of a record that
\* was in the log already
C29_Witness ==
    /\ op.name = "clockInOutAt"
    /\ err = "ok"
    /\ pre[Rec(op.t, op.clockIn)] = 1
    /\ log[Rec(op.t, op.clockIn)] = 2

(***************************************************************************)
(* SpecStream: one stream made by getTimeEntriesStream.  Init is the state *)
(* when getTimeEntriesStream returns: the signals are set, subscribe() has *)
(* been called if autoSubscribe, and getTimeEntries is awaited.  Records   *)
(* of subscription events are taken to parse.                              *)
(***************************************************************************)
\* length of timeStampEntryArray
MaxStream == 3
\* number of entries getTimeEntries returns
MaxLoaded == 2
\* number of events that arrive while loading
MaxBuffered == MaxStream - MaxLoaded

\* ids of the records of the stream: a clock-in and a clock-out
StreamIds == {"in", "out"}

\* TimeStampEntry of a record; the kind of a record never changes, it is given
\* with the id
StreamEntry(id, t) == [id |-> id, timestamp |-> t, clock_in |-> id = "in"]
StreamEntries == {StreamEntry(id, t) : id \in StreamIds, t \in Times}

Methods == {"create", "update", "delete"}
SubscriptionEvent(method, entry) == [action |-> method, record |-> entry]

\* sortTimeStampEntries that leaves the array as it is
sortTimeStampEntriesSkipped(arr) == arr

\* timeStampEntryArray.sort by timestamp, oldest first
sortTimeStampEntries(arr) == SortByTimestamp(arr)

\* the least element of a set of indices, 0 for the empty set: the result of
\* Array.findIndex counted from 1
FirstIndex(S) == IF S = {} THEN 0 ELSE CHOOSE i \in S : \A j \in S : i <= j

\* findIndex((e) => e.timestamp.getTime() > entry.timestamp.getTime())
findIndexLater(arr, entry) ==
    FirstIndex({i \in 1..Len(arr) : arr[i].timestamp > entry.timestamp})

\* findIndex((e) => e.id === entry.id)
findIndexById(arr, entry) ==
    FirstIndex({i \in 1..Len(arr) : arr[i].id = entry.id})

\* splice(index, 1)
RemoveAt(arr, i) == SubSeq(arr, 1, i - 1) \o SubSeq(arr, i + 1, Len(arr))

updateTimeStampEntries(arr, method, entry) ==
    IF method = "create"
    THEN IF Len(arr) = 0 \/ entry.timestamp > arr[Len(arr)].timestamp
         THEN Append(arr, entry)
         ELSE IF entry.timestamp < arr[1].timestamp
         THEN <<entry>> \o arr
         ELSE LET index == findIndexLater(arr, entry)
              IN  IF index = 0 THEN Append(arr, entry)
                  ELSE InsertAt(arr, index - 1, entry)
    ELSE IF method = "update"
    THEN LET index == findIndexById(arr, entry)
         IN  sortTimeStampEntries(IF index # 0 THEN [arr EXCEPT ![index] = entry]
                                  ELSE Append(arr, entry))
    ELSE LET index == findIndexById(arr, entry)
         IN  IF index # 0 THEN RemoveAt(arr, index) ELSE arr

\* for (const entry of subscriptionEvents) processSubscriptionEvent(entry, false)
RECURSIVE Replay(_, _)
Replay(arr, events) ==
    IF events = <<>> THEN arr
    ELSE Replay(updateTimeStampEntries(arr, Head(events).action, Head(events).record),
                Tail(events))

\* subscribe() without the test of subscription
subscribeOutcomeUnguarded ==
    IF isSubscribed THEN "subscribed"
    ELSE IF ~filterValid THEN "filterNotValid"
    ELSE "opens"

\* the branch subscribe() takes
subscribeOutcome ==
    IF isSubscribed THEN "subscribed"
    ELSE IF subscription # "null" THEN "entriesStreamWasSubscribed"
    ELSE IF ~filterValid THEN "filterNotValid"
    ELSE "opens"

\* the subscription delivers events
Delivering == subscription \in {"open", "closing"}

\* subscribe()
Subscribe ==
    /\ loadPc # "unused"
    /\ IF subscribeOutcome = "subscribed"
       THEN /\ result' = "undefined"
            /\ UNCHANGED <<subscription, isSubscribed, error, opened>>
       ELSE IF subscribeOutcome = "opens"
       THEN /\ isSubscribed' = TRUE
            /\ subscription' = "open"
            /\ opened' = opened + 1
            /\ result' = "undefined"
            /\ UNCHANGED error
       ELSE /\ error' = subscribeOutcome
            /\ result' = subscribeOutcome
            /\ UNCHANGED <<subscription, isSubscribed, opened>>
    /\ UNCHANGED <<timeStampEntryArray, subscriptionEvents, entriesSignal, isLoading,
                   loadPc, filterValid, clientVars, log, now, op, pre, err,
                   prevClockIn, handlerVars, pteVars>>

\* unsubscribe(): the PocketBase subscription is closed when the promise
\* resolves
Unsubscribe ==
    /\ loadPc # "unused"
    /\ result' = "none"
    /\ IF ~isSubscribed \/ subscription = "null"
       THEN UNCHANGED <<isSubscribed, isLoading, subscription>>
       ELSE /\ isSubscribed' = FALSE
            /\ isLoading' = FALSE
            /\ subscription' = "closing"
    /\ UNCHANGED <<timeStampEntryArray, subscriptionEvents, entriesSignal, error,
                   loadPc, filterValid, opened, clientVars, log, now, op, pre, err,
                   prevClockIn, handlerVars, pteVars>>

\* subscription.then((unsubscribe) => unsubscribe())
Unsubscribed ==
    /\ subscription = "closing"
    /\ subscription' = "closed"
    /\ result' = "none"
    /\ UNCHANGED <<timeStampEntryArray, subscriptionEvents, entriesSignal, isSubscribed,
                   isLoading, error, loadPc, filterValid, opened, clientVars,
                   log, now, op, pre, err, prevClockIn, handlerVars, pteVars>>

\* the callback of workClock().subscribe: the event is kept while loading and
\* processed otherwise
OnEvent(method, entry) ==
    /\ Delivering
    /\ result' = "none"
    /\ IF isLoading
       THEN /\ Len(subscriptionEvents) < MaxBuffered
            /\ subscriptionEvents' = Append(subscriptionEvents, SubscriptionEvent(method, entry))
            /\ UNCHANGED <<timeStampEntryArray, entriesSignal>>
       ELSE /\ method = "delete" \/ Len(timeStampEntryArray) < MaxStream
            /\ timeStampEntryArray' = updateTimeStampEntries(timeStampEntryArray, method, entry)
            /\ entriesSignal' = timeStampEntryArray'
            /\ UNCHANGED subscriptionEvents
    /\ UNCHANGED <<subscription, isSubscribed, isLoading, error, loadPc, filterValid,
                   opened, clientVars, log, now, op, pre, err, prevClockIn,
                   handlerVars, pteVars>>

\* the entries of arr have pairwise different ids, as the records of one
\* getFullList result have
DistinctIds(arr) == \A i, j \in 1..Len(arr) : i # j => arr[i].id # arr[j].id

\* getTimeEntries has returned currentEntries: the filter is valid and the
\* entries are those of distinct records
LoadDone(currentEntries) ==
    /\ loadPc = "loading"
    /\ filterValid
    /\ DistinctIds(currentEntries)
    /\ Len(timeStampEntryArray) + Len(currentEntries) + Len(subscriptionEvents) <= MaxStream
    /\ timeStampEntryArray' =
           Replay(sortTimeStampEntries(timeStampEntryArray \o currentEntries),
                  subscriptionEvents)
    /\ entriesSignal' = timeStampEntryArray'
    /\ isLoading' = FALSE
    /\ loadPc' = "done"
    /\ result' = "none"
    /\ UNCHANGED <<subscriptionEvents, subscription, isSubscribed, error, filterValid,
                   opened, clientVars, log, now, op, pre, err, prevClockIn,
                   handlerVars, pteVars>>

\* getTimeEntries has failed
LoadFailed ==
    /\ loadPc = "loading"
    /\ isLoading' = FALSE
    /\ error' = "getTimeEntries"
    /\ loadPc' = "failed"
    /\ result' = "none"
    /\ UNCHANGED <<timeStampEntryArray, subscriptionEvents, entriesSignal, subscription,
                   isSubscribed, filterValid, opened, clientVars, log, now, op, pre,
                   err, prevClockIn, handlerVars, pteVars>>

InitStream ==
    /\ timeStampEntryArray = <<>>
    /\ subscriptionEvents = <<>>
    /\ entriesSignal = <<>>
    /\ isLoading = TRUE
    /\ filterValid \in BOOLEAN
    /\ \E autoSubscribe \in BOOLEAN :
          IF ~autoSubscribe
          THEN /\ subscription = "null" /\ isSubscribed = FALSE /\ opened = 0
               /\ error = "undefined" /\ result = "none" /\ loadPc = "loading"
          ELSE IF filterValid
          THEN /\ subscription = "open" /\ isSubscribed = TRUE /\ opened = 1
               /\ error = "undefined" /\ result = "undefined" /\ loadPc = "loading"
          ELSE /\ subscription = "null" /\ isSubscribed = FALSE /\ opened = 0
               /\ error = "filterNotValid" /\ result = "filterNotValid"
               /\ loadPc = "aborted"
    /\ NoClient
    /\ log = EmptyLog
    /\ now = 1
    /\ op = NoOp
    /\ pre = EmptyLog
    /\ err = "none"
    /\ prevClockIn = FALSE
    /\ workClockMutex = 0
    /\ pc = [p \in Procs |-> "idle"]
    /\ seen = [p \in Procs |-> FALSE]
    /\ entries = <<>>
    /\ nowMs = 0
    /\ records = <<>>
    /\ ptePc = "unused"

NextStream ==
    \/ Subscribe
    \/ Unsubscribe
    \/ Unsubscribed
    \/ \E method \in Methods, entry \in StreamEntries : OnEvent(method, entry)
    \/ \E currentEntries \in SeqsUpTo(StreamEntries, MaxLoaded) : LoadDone(currentEntries)
    \/ LoadFailed

SpecStream == InitStream /\ [][NextStream]_vars

(***************************************************************************)
(* SpecStreamFair: the stream with a fetch that settles.  The promise of   *)
(* getTimeEntries resolves or rejects, so the code after the yield or the  *)
(* catch handler runs eventually.                                          *)
(***************************************************************************)
FetchSettles ==
    \/ \E currentEntries \in SeqsUpTo(StreamEntries, MaxLoaded) : LoadDone(currentEntries)
    \/ LoadFailed

SpecStreamFair == InitStream /\ [][NextStream]_vars /\ WF_vars(FetchSettles)

\* the array is in the order of its timestamps, oldest first
IsSorted(arr) == \A i, j \in 1..Len(arr) : i < j => arr[i].timestamp <= arr[j].timestamp

\* C21: after the initial load and after every create, update and delete
\* event the array of the stream and the entries signal are sorted by
\* timestamp, oldest first
C21_StreamSorted ==
    IsSorted(timeStampEntryArray) /\ IsSorted(entriesSignal)

\* after the load, events have grown the array beyond what was loaded, to
\* entries of different timestamps
C21_Witness ==
    /\ loadPc = "done"
    /\ subscriptionEvents = <<>>
    /\ Len(entriesSignal) > MaxLoaded
    /\ entriesSignal[1].timestamp < entriesSignal[Len(entriesSignal)].timestamp

\* the step is a call of subscribe()
SubscribeCalled == result' # "none"

\* C30: subscribe() on a subscribed stream changes nothing and returns no
\* error; subscribe() after unsubscribe() returns the error
\* entriesStreamWasSubscribed, sets the error signal and opens no
\* subscription; a stream opens at most one subscription
C30_SubscribeOnce ==
    /\ [](opened <= 1)
    /\ [][ /\ (SubscribeCalled /\ isSubscribed) =>
                /\ result' = "undefined"
                /\ UNCHANGED <<subscription, isSubscribed, error, opened,
                               timeStampEntryArray, entriesSignal>>
           /\ (SubscribeCalled /\ ~isSubscribed /\ subscription \in {"closing", "closed"}) =>
                /\ result' = "entriesStreamWasSubscribed"
                /\ error' = "entriesStreamWasSubscribed"
                /\ UNCHANGED <<subscription, isSubscribed, opened>>
       ]_vars

\* subscribe() was called on a stream that had been subscribed and
\* unsubscribed, after the PocketBase subscription was closed
C30_Witness ==
    /\ result = "entriesStreamWasSubscribed"
    /\ error = "entriesStreamWasSubscribed"
    /\ subscription = "closed"
    /\ ~isSubscribed
    /\ opened = 1

(***************************************************************************)
(* SpecClient: addClockEntry of the client against the backend, with the   *)
(* requests of other clients between its two requests.  A timestamp        *)
(* within a second of the current time is the current time of the model.   *)
(***************************************************************************)
\* workClock().getFullList({sort: "-timestamp", filter: `clock_in=${clockIn}`})[0]:
\* the records that can come first, none when the list is empty
LatestOfKind(l, clockIn) ==
    {e \in Existing(l) :
        /\ e.clock_in = clockIn
        /\ \A f \in Existing(l) : f.clock_in = clockIn => f.ts <= e.ts}

\* the request addClockEntry sends: clock_in or clock_out for the current
\* time, clock_in_out_at for another timestamp
addClockEntryRequest(l, clockIn, timestamp) ==
    IF timestamp = now THEN clockInOut(l, clockIn, now)
    ELSE clockInOutAt(l, clockIn, timestamp)

\* addClockEntry(clockIn, timestamp) up to the response to its first request;
\* a response that is not ok ends the call with an error
AddClockEntryPost(clockIn, timestamp) ==
    /\ request = NoRec \/ returned # NoRec
    /\ HasRoom(1)
    /\ \E out \in addClockEntryRequest(log, clockIn, timestamp) :
          /\ log' = out.log
          /\ err' = out.err
          /\ request' = IF out.err = "ok" THEN Rec(timestamp, clockIn) ELSE NoRec
    /\ op' = [name |-> "addClockEntry", clockIn |-> clockIn, t |-> timestamp]
    /\ pre' = log
    /\ prevClockIn' = FALSE
    /\ returned' = NoRec
    /\ UNCHANGED <<now, handlerVars, pteVars, streamVars>>

\* addClockEntry from the response on: the latest record of the kind is
\* fetched and yielded
AddClockEntryFetch ==
    /\ request # NoRec
    /\ returned = NoRec
    /\ IF LatestOfKind(log, request.clock_in) = {}
       THEN request' = NoRec /\ UNCHANGED returned
       ELSE /\ returned' \in LatestOfKind(log, request.clock_in)
            /\ UNCHANGED request
    /\ UNCHANGED <<log, now, op, pre, err, prevClockIn, handlerVars, pteVars, streamVars>>

NextClient ==
    \/ \E k \in BOOLEAN, t \in Times : AddClockEntryPost(k, t)
    \/ AddClockEntryFetch
    \/ \E k \in BOOLEAN : ApiClockInOut(k)
    \/ \E k \in BOOLEAN, t \in Times : ApiClockInOutAt(k, t)
    \/ Tick

SpecClient == Init /\ [][NextClient]_vars

\* C22: the entry a successful addClockEntry(clockIn, timestamp) yields has
\* the kind and the timestamp asked for
C22_AddClockEntryYieldsCreated ==
    (request # NoRec /\ returned # NoRec) => returned = request

(***************************************************************************)
(* Properties of the backend, continued.                                   *)
(***************************************************************************)
\* the latest call was clockInOut on an empty log
ClockInOutOnEmpty == op.name = "clockInOut" /\ Existing(pre) = {}

\* C31: on an empty log clockInOut(false) is rejected as already clocked out
\* and leaves the log empty, and clockInOut(true) succeeds and leaves exactly
\* one record, a clock-in
C31_FirstIsClockIn ==
    ClockInOutOnEmpty =>
        IF op.clockIn
        THEN /\ err = "ok"
             /\ Size(log) = 1
             /\ \A e \in Existing(log) : e.clock_in
        ELSE err = "already" /\ log = EmptyLog

C31_Witness == ClockInOutOnEmpty /\ ~op.clockIn /\ err = "already"

\* no two records of log l share a timestamp
Distinct(l) == \A e \in Existing(l) : Alone(l, e)

\* the orders in which a query sorted by timestamp can return log l
Orders(l) ==
    {s \in [1..Size(l) -> Existing(l)] :
        /\ \A e \in Existing(l) : Cardinality({i \in 1..Size(l) : s[i] = e}) = l[e]
        /\ \A i \in 1..(Size(l) - 1) : s[i].ts <= s[i + 1].ts}

\* log l sorted by timestamp alternates in kind, in one order at least of the
\* records of equal timestamp
Alternates(l) ==
    \E s \in Orders(l) : \A i \in 1..(Size(l) - 1) : s[i].clock_in # s[i + 1].clock_in

\* log l sorted by timestamp alternates in kind, whatever the order of the
\* records of equal timestamp
AlternatesInAnyOrder(l) ==
    \A s \in Orders(l) : \A i \in 1..(Size(l) - 1) : s[i].clock_in # s[i + 1].clock_in

\* C32: under a strictly increasing clock, whatever the interleaving of
\* concurrent clock_in, clock_out and toggle requests, the records they create
\* have distinct timestamps and alternate in kind
C32_RequestsAlternate == Distinct(log) /\ Alternates(log)

\* a toggle request was rejected after another request got in between its read
\* and its clockInOut
C32_Witness ==
    /\ op.name = "clockInOut" /\ op.toggle
    /\ err = "already"
    /\ Size(log) >= 2

\* C33: a successful modifyWorkClockTimestamp on a log that alternates in kind
\* in any order leaves a log that alternates in kind in one order at least
C33_ModifyKeepsAlternation ==
    /\ op.name = "modifyWorkClockTimestamp" /\ err = "ok"
    /\ AlternatesInAnyOrder(pre)
    => Alternates(log)

\* record f comes right after record e in log l sorted by timestamp
Follows(l, e, f) ==
    /\ e.ts < f.ts
    /\ \A g \in Existing(l) : g.ts <= e.ts \/ g.ts >= f.ts

\* the latest call was a successful deleteClockInOutPair on a log that
\* alternates in kind
DeletedFromAlternating ==
    op.name = "deleteClockInOutPair" /\ err = "ok" /\ AlternatesInAnyOrder(pre)

C35_PairAppended ==
    (/\ op.name = "addClockInOutPair"
     /\ op.tIn < op.tOut
     /\ \A e \in LatestRecords(pre) : ~e.clock_in /\ e.ts < op.tIn)
    => /\ err = "ok"
       /\ log = Save(Save(pre, op.tIn, TRUE), op.tOut, FALSE)

(***************************************************************************)
(* Properties of the stream, continued.                                    *)
(***************************************************************************)
\* the initial load ends with nothing applied before it and with buffered
\* events that are all create events of different records
LoadsOverBufferedCreates ==
    /\ loadPc = "loading" /\ loadPc' = "done"
    /\ timeStampEntryArray = <<>>
    /\ \A i \in 1..Len(subscriptionEvents) : subscriptionEvents[i].action = "create"
    /\ DistinctIds([i \in 1..Len(subscriptionEvents) |-> subscriptionEvents[i].record])

\* C36: the entries of a stream never hold two entries of the same id; seen on
\* the end of an initial load whose fetched entries are merged with buffered
\* create events of different records
C36_NoDuplicateIds ==
    [][LoadsOverBufferedCreates =>
          DistinctIds(timeStampEntryArray') /\ DistinctIds(entriesSignal')]_vars

\* the initial fetch is in progress before and after the step
FetchInProgress == loadPc = "loading" /\ loadPc' = "loading"

\* C37: while the initial fetch is in progress subscription events are only
\* buffered: no step changes the array or the entries signal, also after a
\* call of unsubscribe()
C37_BufferedWhileLoading ==
    [][FetchInProgress =>
          /\ timeStampEntryArray' = timeStampEntryArray
          /\ entriesSignal' = entriesSignal]_vars

\* C38: the loading signal of every stream eventually becomes false and stays
\* false
C38_LoadingEnds == <>[](~isLoading)

(***************************************************************************)
(* Properties of processTimeEntries, continued.                            *)
(***************************************************************************)
\* the places of the pairs of the output: record r, pair i
PairSlots == {<<r, i>> \in (1..Len(records)) \X (1..MaxEntries) :
                 i <= Len(records[r].entryPairs)}

PairAt(slot) == records[slot[1]].entryPairs[slot[2]]

\* number of input entries of kind k at timestamp t
InputCount(t, k) ==
    Cardinality({j \in 1..Len(entries) :
                    entries[j].timestamp = t /\ entries[j].clock_in = k})

\* C39: processTimeEntries accounts for every input entry exactly once: at
\* every timestamp there are as many pairs with that clockIn as clock-in
\* entries and as many pairs with that clockOut as clock-out entries, so that
\* no pair has a timestamp that is not in the input
C39_EveryEntryOnce ==
    Processed =>
        /\ \A t \in TimePoints :
              /\ Cardinality({s \in PairSlots : PairAt(s).clockIn = t}) = InputCount(t, TRUE)
              /\ Cardinality({s \in PairSlots : PairAt(s).clockOut = t}) = InputCount(t, FALSE)
        /\ \A s \in PairSlots :
              /\ PairAt(s).clockIn \in TimePoints \cup {Null}
              /\ PairAt(s).clockOut \in TimePoints \cup {Null}

\* a completed pair, a clock-out without clock-in, all entries in use
C39_Witness ==
    /\ Processed
    /\ Len(entries) = MaxEntries
    /\ \E s \in PairSlots : PairAt(s).clockIn # Null /\ PairAt(s).clockOut # Null
    /\ \E s \in PairSlots : PairAt(s).clockIn = Null

====
